---- MODULE Spec2Model ----
(***************************************************************************)
(* Model of notebooks/proof_of_concept01.ipynb: the panel-data target      *)
(* shifter shift_and_mask_column and the two test oracles that consume its *)
(* output (check_if_subset, check_if_length_correct).                      *)
(*                                                                         *)
(* A table is a sequence of rows, a row a sequence of numbers.  Python     *)
(* column indices are 0-based and may be negative; sequences here are      *)
(* 1-based, so PyIndex normalises an index and cells are read at           *)
(* PyIndex + 1.  The float NaN is the number NaN below; every other cell   *)
(* value of the model is >= 0.                                             *)
(***************************************************************************)
EXTENDS Integers, Sequences, FiniteSets

\* ------------------------------------------------------------------ bounds
MaxGroups == 2
MaxTimeSteps == 3
MaxSteps == 4
MaxLead == 1

\* --------------------------------------------------------------- constants
NumFeatures == 1
NaN == -1

VARIABLES
    data_org,                \* the caller's table (the storage data_org refers to)
    data_in,                 \* the table as it was when the call was made
    org_device,              \* where the caller's table lives: "cpu" or "cuda"
    cuda_available,          \* torch.cuda.is_available()
    column_to_shift_idx, time_column_idx, steps,
    force_cpu, return_full, retain_unshifted_col,
    data,                    \* the local `data`
    data_ref,                \* "unbound", "alias" (same storage as data_org) or "copy"
    time_values_mask,
    masked_column_shifted,
    pc,
    outcome                  \* "running", "returned", "UnboundLocalError", "IndexError"

vars == <<data_org, data_in, org_device, cuda_available, column_to_shift_idx,
          time_column_idx, steps, force_cpu, return_full, retain_unshifted_col,
          data, data_ref, time_values_mask, masked_column_shifted, pc, outcome>>

args == <<column_to_shift_idx, time_column_idx, steps, force_cpu, return_full,
          retain_unshifted_col, data_in, org_device, cuda_available>>

\* ------------------------------------------------------- Python / torch ops
Min(a, b) == IF a < b THEN a ELSE b
Max(a, b) == IF a > b THEN a ELSE b

isnan(x) == x = NaN

\* x + y on floats: NaN is absorbing
add(x, y) == IF isnan(x) \/ isnan(y) THEN NaN ELSE x + y

NColsOf(tbl) == IF tbl = <<>> THEN 0 ELSE Len(tbl[1])

\* Python index normalisation and the range test of tensor indexing
PyIndex(idx, n) == IF idx < 0 THEN idx + n ELSE idx
InRange(idx, n) == idx >= 0 - n /\ idx < n

\* tbl[:, idx]
Column(tbl, idx) ==
    [i \in 1..Len(tbl) |-> tbl[i][PyIndex(idx, NColsOf(tbl)) + 1]]

\* torch.unique(col), as a set of values
unique(col) == {col[i] : i \in DOMAIN col}

RECURSIVE sort_Descending(_)
\* sort in descending order (descending=True)
sort_Descending(S) ==
    IF S = {} THEN <<>>
    ELSE LET m == CHOOSE x \in S : \A y \in S : x >= y
         IN <<m>> \o sort_Descending(S \ {m})

RECURSIVE sort(_)
\* torch.sort(...).values of a set of distinct values: ascending
sort(S) ==
    IF S = {} THEN <<>>
    ELSE LET m == CHOOSE x \in S : \A y \in S : x <= y
         IN <<m>> \o sort(S \ {m})

\* SliceTo with the sign test off by one: k = 0 is sliced as s[:-0] is not
SliceTo_ZeroFromEnd(s, k) ==
    SubSeq(s, 1, IF k > 0 THEN Min(k, Len(s)) ELSE Max(Len(s) + k, 0))

\* s[:k] (Python slice: a negative k counts from the end)
SliceTo(s, k) ==
    SubSeq(s, 1, IF k >= 0 THEN Min(k, Len(s)) ELSE Max(Len(s) + k, 0))

\* torch.isin(col, vals); NaN compares unequal to everything
isin(col, vals) ==
    [i \in DOMAIN col |-> ~isnan(col[i]) /\ \E j \in DOMAIN vals : vals[j] = col[i]]

\* where_nan with the two branches exchanged
where_nan_Swapped(cond, x) == [i \in DOMAIN x |-> IF cond[i] THEN NaN ELSE x[i]]

\* torch.where(cond, x, full_like(x, nan))
where_nan(cond, x) == [i \in DOMAIN x |-> IF cond[i] THEN x[i] ELSE NaN]

\* torch.roll(x, shifts, dims=0): out[(i + shifts) mod N] = x[i]
roll(x, shifts) ==
    [i \in DOMAIN x |-> x[((i - 1 - shifts) % Len(x)) + 1]]

\* tbl[:, idx] = col
SetColumn(tbl, idx, col) ==
    [i \in 1..Len(tbl) |->
        [tbl[i] EXCEPT ![PyIndex(idx, NColsOf(tbl)) + 1] = col[i]]]

\* torch.column_stack([tbl, col])
column_stack(tbl, col) == [i \in 1..Len(tbl) |-> Append(tbl[i], col[i])]

RECURSIVE BoolIndex(_, _)
\* tbl[keep] for a boolean row mask
BoolIndex(tbl, keep) ==
    IF tbl = <<>> THEN <<>>
    ELSE LET rest == BoolIndex(Tail(tbl), Tail(keep))
         IN IF Head(keep) THEN <<Head(tbl)>> \o rest ELSE rest

\* ------------------------------------------------------------ input tables
NCols == 3 + NumFeatures + 1

\* Rows of group g (0-based) run over times 0..len-1; groups are contiguous
\* and ascending, so the table is sorted by (group, time).
RECURSIVE Rows(_, _, _)
Rows(lens, g, first) ==
    IF g > Len(lens) THEN <<>>
    ELSE [t \in 1..lens[g] |->
            <<first + t - 1, t - 1, g - 1>>
            \o [f \in 1..NumFeatures |-> 50 * f + first + t]
            \o <<10 * (first + t)>>]
         \o Rows(lens, g + 1, first + lens[g])

\* generate_synthetic_temporal_dataset, plus tables one of whose groups is one
\* step shorter, and tables with one NaN cell in the target column.
GroupLens(G, T, short) == [g \in 1..G |-> IF g = short THEN T - 1 ELSE T]

Dataset(G, T, short, nanRow) ==
    LET tbl == Rows(GroupLens(G, T, short), 1, 0)
    IN [i \in 1..Len(tbl) |->
          IF i = nanRow THEN [tbl[i] EXCEPT ![NCols] = NaN] ELSE tbl[i]]

\* A table the caller did not sort (rows in descending order), as
\* shuffle_tensor_rows can leave it when sort_tensor_by_indices is skipped.
Reversed(tbl) == [i \in 1..Len(tbl) |-> tbl[Len(tbl) + 1 - i]]

SortedTables ==
    UNION { UNION { UNION {
        { Dataset(G, T, short, nanRow) :
            nanRow \in 0..(G * T - (IF short = 0 THEN 0 ELSE 1)) }
        : short \in (IF G >= 2 /\ T >= 2 THEN 0..G ELSE {0}) }
        : T \in 1..MaxTimeSteps }
        : G \in 1..MaxGroups }

InputTables ==
    SortedTables \cup
    { Reversed(Dataset(G, T, 0, 0)) : G \in 1..MaxGroups, T \in 2..MaxTimeSteps }

StepValues == (0 - MaxLead)..MaxSteps
TimeIdxValues == {1, 2, NCols}
ShiftIdxValues == {-1, NCols - 2, NCols}

\* --------------------------------------------------------------- the call
Init ==
    /\ data_org \in InputTables
    /\ data_in = data_org
    /\ cuda_available \in BOOLEAN
    /\ org_device \in (IF cuda_available THEN {"cpu", "cuda"} ELSE {"cpu"})
    /\ column_to_shift_idx \in ShiftIdxValues
    /\ time_column_idx \in TimeIdxValues
    /\ steps \in StepValues
    /\ force_cpu \in BOOLEAN
    /\ return_full \in BOOLEAN
    /\ retain_unshifted_col \in BOOLEAN
    /\ data = <<>>
    /\ data_ref = "unbound"
    /\ time_values_mask = <<>>
    /\ masked_column_shifted = <<>>
    /\ pc = "place"
    /\ outcome = "running"

\* Lines 274-279: `.to('cuda')` copies a CPU tensor and returns the tensor
\* itself when it already lives on the GPU; `.clone()` always copies; with no
\* CUDA and force_cpu False neither branch runs and `data` stays unbound.
PlaceRef(cuda, force, dev) ==
    IF cuda /\ ~force THEN (IF dev = "cuda" THEN "alias" ELSE "copy")
    ELSE IF force THEN "copy"
    ELSE "unbound"

Place ==
    /\ pc = "place"
    /\ data_ref' = PlaceRef(cuda_available, force_cpu, org_device)
    /\ data' = IF data_ref' = "unbound" THEN <<>> ELSE data_org
    /\ pc' = "mask"
    /\ UNCHANGED <<data_org, time_values_mask, masked_column_shifted, outcome>>
    /\ UNCHANGED args

\* BuildMaskOf taking one time value too few (sorted[:steps - 1])
BuildMaskOf_OneShort(tbl, tidx, k) ==
    LET unique_time_idx == unique(Column(tbl, tidx))
        time_values_to_mask == SliceTo(sort(unique_time_idx), Max(k - 1, 0))
    IN isin(Column(tbl, tidx), time_values_to_mask)

\* Lines 282-284
BuildMaskOf(tbl, tidx, k) ==
    LET unique_time_idx == unique(Column(tbl, tidx))
        time_values_to_mask == SliceTo(sort(unique_time_idx), k)
    IN isin(Column(tbl, tidx), time_values_to_mask)

BuildMask ==
    /\ pc = "mask"
    /\ IF data_ref = "unbound"
       THEN /\ outcome' = "UnboundLocalError"
            /\ pc' = "done"
            /\ UNCHANGED time_values_mask
       ELSE IF ~InRange(time_column_idx, NColsOf(data))
       THEN /\ outcome' = "IndexError"
            /\ pc' = "done"
            /\ UNCHANGED time_values_mask
       ELSE /\ time_values_mask' = BuildMaskOf(data, time_column_idx, steps)
            /\ pc' = "shift"
            /\ UNCHANGED outcome
    /\ UNCHANGED <<data_org, data, data_ref, masked_column_shifted>>
    /\ UNCHANGED args

\* Lines 285-288
SourceIdx(tidx) == 0 - tidx

\* ShiftOf rolling by +steps instead of -steps
ShiftOf_RollForward(tbl, tidx, mask, k) ==
    LET column_to_shift == Column(tbl, 0 - tidx)
        masked_column_to_shift == where_nan([i \in DOMAIN mask |-> ~mask[i]], column_to_shift)
    IN roll(masked_column_to_shift, k)

ShiftOf(tbl, tidx, mask, k) ==
    LET column_to_shift == Column(tbl, SourceIdx(tidx))
        masked_column_to_shift == where_nan([i \in DOMAIN mask |-> ~mask[i]], column_to_shift)
    IN roll(masked_column_to_shift, 0 - k)

Shift ==
    /\ pc = "shift"
    /\ IF ~InRange(SourceIdx(time_column_idx), NColsOf(data))
       THEN /\ outcome' = "IndexError"
            /\ pc' = "done"
            /\ UNCHANGED masked_column_shifted
       ELSE /\ masked_column_shifted' = ShiftOf(data, time_column_idx, time_values_mask, steps)
            /\ pc' = "install"
            /\ UNCHANGED outcome
    /\ UNCHANGED <<data_org, data, data_ref, time_values_mask>>
    /\ UNCHANGED args

\* Lines 291-296
Install ==
    /\ pc = "install"
    /\ IF retain_unshifted_col
       THEN /\ data' = column_stack(data, masked_column_shifted)
            /\ data_ref' = "copy"
            /\ pc' = "filter"
            /\ UNCHANGED <<data_org, outcome>>
       ELSE IF ~InRange(column_to_shift_idx, NColsOf(data))
       THEN /\ outcome' = "IndexError"
            /\ pc' = "done"
            /\ UNCHANGED <<data_org, data, data_ref>>
       ELSE /\ data' = SetColumn(data, column_to_shift_idx, masked_column_shifted)
            /\ data_org' = IF data_ref = "alias" THEN data' ELSE data_org
            /\ pc' = "filter"
            /\ UNCHANGED <<data_ref, outcome>>
    /\ UNCHANGED <<time_values_mask, masked_column_shifted>>
    /\ UNCHANGED args

\* FilterOf without the negation of isnan: keeps the NaN rows
FilterOf_KeepNaN(tbl, idx) ==
    LET nan_mask == [i \in 1..Len(tbl) |-> isnan(Column(tbl, idx)[i])]
    IN BoolIndex(tbl, nan_mask)

\* Lines 298-303
FilterOf(tbl, idx) ==
    LET nan_mask == [i \in 1..Len(tbl) |-> ~isnan(Column(tbl, idx)[i])]
    IN BoolIndex(tbl, nan_mask)

CensorFilter ==
    /\ pc = "filter"
    /\ IF return_full
       THEN /\ outcome' = "returned"
            /\ UNCHANGED <<data, data_ref>>
       ELSE IF ~InRange(column_to_shift_idx, NColsOf(data))
       THEN /\ outcome' = "IndexError"
            /\ UNCHANGED <<data, data_ref>>
       ELSE /\ data' = FilterOf(data, column_to_shift_idx)
            /\ data_ref' = "copy"
            /\ outcome' = "returned"
    /\ pc' = "done"
    /\ UNCHANGED <<data_org, time_values_mask, masked_column_shifted>>
    /\ UNCHANGED args

\* The whole call as a function of its arguments: the outcome and, when the
\* call returns, the returned table.
Raise(e) == [outcome |-> e, table |-> <<>>]

shift_and_mask_column(tbl, cidx, tidx, k, force, full, retain, cuda, dev) ==
    IF PlaceRef(cuda, force, dev) = "unbound" THEN Raise("UnboundLocalError")
    ELSE IF ~InRange(tidx, NColsOf(tbl)) THEN Raise("IndexError")
    ELSE IF ~InRange(SourceIdx(tidx), NColsOf(tbl)) THEN Raise("IndexError")
    ELSE IF ~retain /\ ~InRange(cidx, NColsOf(tbl)) THEN Raise("IndexError")
    ELSE LET shifted == ShiftOf(tbl, tidx, BuildMaskOf(tbl, tidx, k), k)
             installed == IF retain THEN column_stack(tbl, shifted)
                          ELSE SetColumn(tbl, cidx, shifted)
         IN IF full THEN [outcome |-> "returned", table |-> installed]
            ELSE IF ~InRange(cidx, NColsOf(installed)) THEN Raise("IndexError")
            ELSE [outcome |-> "returned", table |-> FilterOf(installed, cidx)]

Next == Place \/ BuildMask \/ Shift \/ Install \/ CensorFilter

Spec == Init /\ [][Next]_vars

\* ------------------------------------------------------- the test oracles
abs(x) == IF x < 0 THEN 0 - x ELSE x

\* check_if_subset: every (group + last column) sum of new_data occurs among
\* the (group + last column) sums of data (torch.isin: NaN matches nothing)
check_if_subset(tbl, new_data) ==
    LET sum_col == [i \in 1..Len(tbl) |-> add(Column(tbl, 2)[i], Column(tbl, -1)[i])]
        new_sum_col == [i \in 1..Len(new_data) |->
                           add(Column(new_data, 2)[i], Column(new_data, -1)[i])]
        is_in == isin(new_sum_col, sum_col)
    IN \A i \in DOMAIN is_in : is_in[i]

\* check_if_length_correct
check_if_length_correct(tbl, new_data, k) ==
    LET num_groups == Cardinality(unique(Column(tbl, 2)))
        num_row_censured == num_groups * abs(k)
        length_diff == Len(tbl) - Len(new_data)
    IN length_diff = num_row_censured

\* ------------------------------------------------- vocabulary of the claims
\* Column layout of generate_synthetic_temporal_dataset:
\* index, time index, group id, features, target.
TimeAt(tbl, i) == tbl[i][2]
GroupAt(tbl, i) == tbl[i][3]
TargetAt(tbl, i) == tbl[i][NCols]

\* What sort_tensor_by_indices(tensor, 2, 1) establishes
IsSorted(tbl) ==
    \A i \in 1..(Len(tbl) - 1) :
        \/ GroupAt(tbl, i) < GroupAt(tbl, i + 1)
        \/ GroupAt(tbl, i) = GroupAt(tbl, i + 1) /\ TimeAt(tbl, i) <= TimeAt(tbl, i + 1)

GroupsOf(tbl) == {GroupAt(tbl, i) : i \in 1..Len(tbl)}
GroupRows(tbl, g) == {i \in 1..Len(tbl) : GroupAt(tbl, i) = g}
GroupLen(tbl, g) == Cardinality(GroupRows(tbl, g))
MinGroupLen(tbl) ==
    CHOOSE n \in 0..Len(tbl) :
        /\ \E g \in GroupsOf(tbl) : GroupLen(tbl, g) = n
        /\ \A g \in GroupsOf(tbl) : GroupLen(tbl, g) >= n

\* Every group runs over the times 0..len-1
DenseGrid(tbl) ==
    \A g \in GroupsOf(tbl) :
        {TimeAt(tbl, i) : i \in GroupRows(tbl, g)} = 0..(GroupLen(tbl, g) - 1)

\* Every group spans the same dense time grid 0..T-1
UniformGrid(tbl) ==
    /\ DenseGrid(tbl)
    /\ \A g \in GroupsOf(tbl) : GroupLen(tbl, g) = MinGroupLen(tbl)

NoNaNTarget(tbl) == \A i \in 1..Len(tbl) : ~isnan(TargetAt(tbl, i))

DefaultColumns == time_column_idx = 1 /\ column_to_shift_idx = -1

Returned == pc = "done" /\ outcome = "returned"

\* The column of the returned table that holds the shifted values
WrittenIdx == IF retain_unshifted_col THEN -1 ELSE column_to_shift_idx

\* ------------------------------------------------------------------ claims

\* C1 (as claimed): lag direction.  On a sorted table whose groups span the
\* same dense grid 0..T-1, with 1 <= steps < T, overwrite mode and
\* return_full, the target of row (g, t) is the input target of row
\* (g, t - steps) when t >= steps and NaN when t < steps.
C1_LagDirection ==
    ( /\ Returned /\ DefaultColumns /\ return_full /\ ~retain_unshifted_col
      /\ IsSorted(data_in) /\ UniformGrid(data_in) /\ NoNaNTarget(data_in)
      /\ steps >= 1 /\ steps < MinGroupLen(data_in) )
    => \A i \in 1..Len(data) :
          TargetAt(data, i) =
             IF TimeAt(data_in, i) >= steps
             THEN TargetAt(data_in,
                     CHOOSE j \in GroupRows(data_in, GroupAt(data_in, i)) :
                         TimeAt(data_in, j) = TimeAt(data_in, i) - steps)
             ELSE NaN

\* C2: no cross-group contamination.  On a sorted table whose groups span the
\* same dense grid, with 1 <= steps <= group length, every cell of the shifted
\* column of the unfiltered output is NaN or the input target of a row of the
\* same group exactly steps time positions away, and the cells whose rotation
\* source wrapped around the end of the table are NaN.
C2_NoCrossGroup ==
    ( /\ Returned /\ DefaultColumns /\ return_full
      /\ IsSorted(data_in) /\ UniformGrid(data_in)
      /\ steps >= 1 /\ steps <= MinGroupLen(data_in) )
    => LET out == Column(data, WrittenIdx)
       IN \A i \in 1..Len(data) :
            /\ \/ isnan(out[i])
               \/ \E j \in GroupRows(data_in, GroupAt(data_in, i)) :
                     /\ abs(TimeAt(data_in, j) - TimeAt(data_in, i)) = steps
                     /\ out[i] = TargetAt(data_in, j)
            /\ i + steps > Len(data) => isnan(out[i])

C2_Witness ==
    /\ Returned /\ DefaultColumns /\ return_full
    /\ IsSorted(data_in) /\ UniformGrid(data_in)
    /\ steps >= 1 /\ steps < MinGroupLen(data_in)
    /\ Cardinality(GroupsOf(data_in)) >= 2
    /\ \E i \in 1..Len(data) : ~isnan(Column(data, WrittenIdx)[i])
    /\ isnan(Column(data, WrittenIdx)[Len(data)])

\* C3 (as claimed): row-count law.  On a sorted table with G groups, each on
\* a dense grid of length >= |steps|, whose target holds no NaN, the filtered
\* output has exactly G * |steps| fewer rows than the input.
C3_RowCountLaw ==
    ( /\ Returned /\ DefaultColumns /\ ~return_full
      /\ IsSorted(data_in) /\ DenseGrid(data_in) /\ NoNaNTarget(data_in)
      /\ MinGroupLen(data_in) >= abs(steps) )
    => check_if_length_correct(data_in, data, steps)

\* C4: subset law.  On a sorted uniform-grid table with steps >= 1, every row
\* of the filtered output has a (group + target) sum that is the
\* (group + target) sum of some input row.
C4_SubsetLaw ==
    ( /\ Returned /\ DefaultColumns /\ ~return_full
      /\ IsSorted(data_in) /\ UniformGrid(data_in) /\ steps >= 1 )
    => check_if_subset(data_in, data)

C4_Witness ==
    /\ Returned /\ DefaultColumns /\ ~return_full
    /\ IsSorted(data_in) /\ UniformGrid(data_in) /\ steps >= 1
    /\ Cardinality(GroupsOf(data_in)) >= 2
    /\ Len(data) >= 2
    /\ Len(data) < Len(data_in)

\* The indices the call uses, against the width of the input table
BadTimeIdx == ~InRange(time_column_idx, NColsOf(data_in))
BadSourceIdx == ~InRange(SourceIdx(time_column_idx), NColsOf(data_in))
BadShiftIdx == ~InRange(column_to_shift_idx, NColsOf(data_in))
Failed == pc = "done" /\ outcome \in {"IndexError", "UnboundLocalError"}
NumTimeValues == Cardinality(unique(Column(data_in, time_column_idx)))

\* C5 (as claimed): invalid configuration fails fast.  When |steps| exceeds
\* the number of distinct time values, or a column index is out of range, the
\* call ends in an error with no table value changed, and never returns.
C5_FailsFast ==
    ( /\ pc = "done"
      /\ \/ BadTimeIdx \/ BadSourceIdx \/ BadShiftIdx
         \/ abs(steps) > NumTimeValues )
    => Failed /\ data_org = data_in

\* C5 (amended): an out-of-range time index, and in overwrite mode an
\* out-of-range target index, end the call in an error with no table value
\* changed; a steps above the number of distinct time values is not rejected:
\* when such a call returns, every row was marked and the shifted column is
\* NaN in every row, so the filtered overwrite result is empty.
C5_InvalidConfiguration ==
    pc = "done" =>
      /\ (BadTimeIdx \/ (~retain_unshifted_col /\ BadShiftIdx))
            => Failed /\ data_org = data_in
      /\ (~BadTimeIdx /\ steps > NumTimeValues /\ outcome = "returned")
            => /\ \A i \in DOMAIN time_values_mask : time_values_mask[i]
               /\ \A i \in DOMAIN masked_column_shifted : isnan(masked_column_shifted[i])
               /\ Len(masked_column_shifted) = Len(data_in)
               /\ (~retain_unshifted_col /\ ~return_full) => data = <<>>

C5_Witness ==
    /\ Returned /\ steps > NumTimeValues /\ NumTimeValues >= 2
    /\ ~retain_unshifted_col /\ ~return_full /\ data = <<>>
    /\ NoNaNTarget(data_in)

\* C6 (as claimed): compute placement has no semantic effect.  The call has
\* the same outcome, and when it returns the same table, as the call with the
\* other value of force_cpu and all other arguments equal.
C6_PlacementNoEffect ==
    pc = "done" =>
      LET other == shift_and_mask_column(data_in, column_to_shift_idx,
                       time_column_idx, steps, ~force_cpu, return_full,
                       retain_unshifted_col, cuda_available, org_device)
      IN /\ other.outcome = outcome
         /\ outcome = "returned" => other.table = data

\* C7 (as claimed): source column selection.  The values that are masked and
\* rotated are those of the column named by column_to_shift_idx, whatever
\* time_column_idx is.
C7_SourceColumn ==
    ( /\ pc \in {"install", "filter"} \/ Returned
      /\ ~BadShiftIdx )
    => masked_column_shifted =
         roll(where_nan([i \in DOMAIN time_values_mask |-> ~time_values_mask[i]],
                        Column(data_in, column_to_shift_idx)),
              0 - steps)

\* C8: steps = 0 is a no-op.  On a table whose target holds no NaN, a call
\* with steps = 0 marks no row, returns the target column as it was in the
\* input, row by row, and removes no row.
C8_ZeroSteps ==
    ( /\ Returned /\ DefaultColumns /\ steps = 0 /\ NoNaNTarget(data_in) )
    => /\ \A i \in DOMAIN time_values_mask : ~time_values_mask[i]
       /\ Len(data) = Len(data_in)
       /\ Column(data, WrittenIdx) = Column(data_in, -1)
       /\ \A i \in 1..Len(data_in) : TargetAt(data, i) = TargetAt(data_in, i)

C8_Witness ==
    /\ Returned /\ DefaultColumns /\ steps = 0 /\ NoNaNTarget(data_in)
    /\ ~return_full
    /\ Cardinality(GroupsOf(data_in)) >= 2
    /\ Len(data) = Len(data_in)

\* Position of a row in a table whose rows are pairwise distinct
PosIn(tbl, row) == CHOOSE i \in 1..Len(tbl) : tbl[i] = row

\* `after` is the subsequence of the rows of `before` whose column idx is not NaN
IsCensored(before, after, idx) ==
    /\ \A r \in 1..Len(after) :
          /\ ~isnan(Column(after, idx)[r])
          /\ \E i \in 1..Len(before) : before[i] = after[r]
    /\ \A r \in 1..(Len(after) - 1) :
          PosIn(before, after[r]) < PosIn(before, after[r + 1])
    /\ Len(after) = Cardinality({i \in 1..Len(before) : ~isnan(Column(before, idx)[i])})

\* C9: censor filter.  With return_full False the returned table is exactly
\* the subsequence of the shifted table's rows whose target column is not NaN,
\* in their order; with return_full True it is the shifted table, row for row.
C9_CensorFilter ==
    [][ (pc = "filter" /\ outcome' = "returned")
        => IF return_full THEN data' = data
           ELSE IsCensored(data, data', column_to_shift_idx) ]_vars

C9_Witness ==
    /\ Returned /\ ~return_full
    /\ Len(data) >= 2 /\ Len(data) < Len(data_in)
    /\ \A r \in 1..Len(data) : ~isnan(Column(data, column_to_shift_idx)[r])

\* C10 (as claimed): frame.  No cell of the caller's input table ever
\* changes, and every row of the returned table agrees with a row of the input
\* on every column but the one written.
C10_Frame ==
    /\ data_org = data_in
    /\ Returned =>
         LET written == IF retain_unshifted_col THEN NCols + 1
                        ELSE PyIndex(column_to_shift_idx, NCols) + 1
         IN \A r \in 1..Len(data) : \E i \in 1..Len(data_in) :
               \A c \in 1..NCols : c # written => data[r][c] = data_in[i][c]

\* The mask of lines 282-284 has been built
MaskBuilt == pc \in {"shift", "install", "filter"} \/ Returned

\* v is among the k smallest distinct values of the time column
AmongSmallest(tbl, tidx, v, k) ==
    Cardinality({u \in unique(Column(tbl, tidx)) : u < v}) < k

\* C11 (as claimed): boundary mask for signed steps.  For every steps,
\* negative ones included, the mask marks row i iff the time index of row i is
\* among the |steps| smallest distinct time-index values of the table.
C11_SignedMask ==
    MaskBuilt =>
      \A i \in DOMAIN time_values_mask :
          time_values_mask[i] <=>
             AmongSmallest(data_in, time_column_idx,
                           Column(data_in, time_column_idx)[i], abs(steps))

\* C12 (as claimed): append mode with filtering.  With retain_unshifted_col
\* the returned rows are rows of the input with the shifted value appended as
\* a trailing column, every original column unchanged, and with return_full
\* False the rows removed are exactly those whose appended value is NaN, for
\* every column_to_shift_idx that is valid for the input table.
C12_AppendFilter ==
    ( /\ Returned /\ retain_unshifted_col /\ ~BadShiftIdx )
    => LET appended == column_stack(data_in, masked_column_shifted)
       IN IF return_full THEN data = appended
          ELSE IsCensored(appended, data, -1)

\* C13: unequal group lengths.  On a sorted table whose groups each run over
\* a dense grid from time 0 and have length >= steps >= 1, possibly of
\* different lengths, every non-NaN cell of the shifted column holds a target
\* of the row's own group and of no other group, and each group has exactly
\* steps sentinel rows (beside the rows that copied a NaN of the input).
C13_UnequalGroups ==
    ( /\ Returned /\ DefaultColumns /\ return_full
      /\ IsSorted(data_in) /\ DenseGrid(data_in)
      /\ steps >= 1 /\ MinGroupLen(data_in) >= steps )
    => LET out == Column(data, WrittenIdx)
       IN /\ \A i \in 1..Len(data) :
                ~isnan(out[i]) =>
                   /\ \E j \in GroupRows(data_in, GroupAt(data_in, i)) :
                         out[i] = TargetAt(data_in, j)
                   /\ \A j \in 1..Len(data_in) :
                         out[i] = TargetAt(data_in, j)
                            => GroupAt(data_in, j) = GroupAt(data_in, i)
          /\ \A g \in GroupsOf(data_in) :
                Cardinality({i \in GroupRows(data_in, g) : isnan(out[i])})
                = steps
                  + Cardinality({i \in GroupRows(data_in, g) :
                       \E j \in GroupRows(data_in, g) :
                          /\ TimeAt(data_in, j) = TimeAt(data_in, i) + steps
                          /\ isnan(TargetAt(data_in, j))})

C13_Witness ==
    /\ Returned /\ DefaultColumns /\ return_full
    /\ IsSorted(data_in) /\ DenseGrid(data_in) /\ ~UniformGrid(data_in)
    /\ NoNaNTarget(data_in)
    /\ steps >= 1 /\ MinGroupLen(data_in) >= steps
    /\ \E i \in 1..Len(data) : ~isnan(Column(data, WrittenIdx)[i])
    /\ \A g \in GroupsOf(data_in) :
          Cardinality({i \in GroupRows(data_in, g) :
                          isnan(Column(data, WrittenIdx)[i])}) = steps

====
